---- MODULE Spec2Model ----
(***************************************************************************)
(* Model of the quiz-generation API route: the POST handler that forwards  *)
(* a request to the Dify workflow engine, and parseDifyCSV, which turns    *)
(* the engine's free-form text into question records.                      *)
(*                                                                         *)
(* A text is a sequence of one-character strings, so that splitting,       *)
(* trimming, pattern matching and JSON decoding are computed character by  *)
(* character, as the code computes them.                                   *)
(***************************************************************************)
EXTENDS Integers, Sequences, FiniteSets, TLC

(***************************************************************************)
(* Characters and literals                                                 *)
(***************************************************************************)
LowerLetters == <<"a", "b", "c", "d", "e", "f", "g", "h", "i", "j", "k", "l", "m", "n", "o", "p", "q", "r", "s", "t", "u", "v", "w", "x", "y", "z">>

UpperLetters == <<"A", "B", "C", "D", "E", "F", "G", "H", "I", "J", "K", "L", "M", "N", "O", "P", "Q", "R", "S", "T", "U", "V", "W", "X", "Y", "Z">>

LowerSet == {LowerLetters[k] : k \in 1..26}

UpperSet == {UpperLetters[k] : k \in 1..26}

Digits == {"0", "1", "2", "3", "4", "5", "6", "7", "8", "9"}

\* the i flag of the patterns: a character compared without regard to case
LowerOf == [c \in UpperSet |-> LowerLetters[CHOOSE k \in 1..26 : UpperLetters[k] = c]]

Lower(c) == IF c \in UpperSet THEN LowerOf[c] ELSE c

\* \s of the patterns and the characters String.prototype.trim removes
IsSpace(c) == c \in {" ", "\n", "\t", "\r"}

RowDelimiter == <<"<", "_", ">">>

FieldDelimiter == <<"|", "-", ">">>

\* the character U+0060, which a string literal of this language cannot hold
Backtick == "U+0060"

Fence == <<Backtick, Backtick, Backtick>>

MultipleChoice == <<"M", "u", "l", "t", "i", "p", "l", "e", " ", "C", "h", "o", "i", "c", "e">>

ShortAnswer == <<"S", "h", "o", "r", "t", " ", "A", "n", "s", "w", "e", "r">>

Reading == <<"R", "e", "a", "d", "i", "n", "g">>

Math == <<"M", "a", "t", "h">>

(***************************************************************************)
(* String primitives of the runtime, as parseDifyCSV uses them             *)
(***************************************************************************)
\* sub occurs in s at position i
StartsAt(s, sub, i) ==
    /\ i >= 1
    /\ i + Len(sub) - 1 <= Len(s)
    /\ \A k \in 1..Len(sub) : s[i + k - 1] = sub[k]

\* sub occurs in s at position i, case-insensitively (sub is lower case)
StartsAtI(s, sub, i) ==
    /\ i >= 1
    /\ i + Len(sub) - 1 <= Len(s)
    /\ \A k \in 1..Len(sub) : Lower(s[i + k - 1]) = sub[k]

\* String.prototype.includes
Includes(s, sub) == \E i \in 1..Len(s) : StartsAt(s, sub, i)

\* String.prototype.trim
Trim(s) ==
    LET keep == {k \in 1..Len(s) : ~IsSpace(s[k])}
    IN  IF keep = {} THEN <<>>
        ELSE SubSeq(s, CHOOSE k \in keep : \A m \in keep : k <= m,
                       CHOOSE k \in keep : \A m \in keep : k >= m)

RECURSIVE SplitAcc(_, _, _, _)
SplitAcc(s, sep, i, cur) ==
    IF i > Len(s) THEN <<cur>>
    ELSE IF StartsAt(s, sep, i)
         THEN <<cur>> \o SplitAcc(s, sep, i + Len(sep), <<>>)
         ELSE SplitAcc(s, sep, i + 1, Append(cur, s[i]))

\* String.prototype.split with a non-empty separator
Split(s, sep) == SplitAcc(s, sep, 1, <<>>)

\* replace(/x/g, y) for a one-character pattern: every c in drop becomes with
ReplaceChars(s, drop, with) ==
    LET RECURSIVE Go(_)
        Go(i) == IF i > Len(s) THEN <<>>
                 ELSE (IF s[i] \in drop THEN with ELSE <<s[i]>>) \o Go(i + 1)
    IN  Go(1)

(***************************************************************************)
(* Normalizer and row splitter                                             *)
(***************************************************************************)
\* end of a match of /```[a-z]*\n?/i that starts at i: the first position after it
RECURSIVE SkipLetters(_, _)
SkipLetters(s, i) ==
    IF i <= Len(s) /\ Lower(s[i]) \in LowerSet THEN SkipLetters(s, i + 1) ELSE i

FenceEnd(s, i) ==
    LET j == SkipLetters(s, i + 3)
    IN  IF j <= Len(s) /\ s[j] = "\n" THEN j + 1 ELSE j

\* raw.replace(/```[a-z]*\n?/gi, "")
RECURSIVE RemoveOpeningFencesFrom(_, _)
RemoveOpeningFencesFrom(s, i) ==
    IF i > Len(s) THEN <<>>
    ELSE IF StartsAt(s, Fence, i)
         THEN RemoveOpeningFencesFrom(s, FenceEnd(s, i))
         ELSE <<s[i]>> \o RemoveOpeningFencesFrom(s, i + 1)

RemoveOpeningFences(s) == RemoveOpeningFencesFrom(s, 1)

\* .replace(/```/g, "")
RECURSIVE RemoveFencesFrom(_, _)
RemoveFencesFrom(s, i) ==
    IF i > Len(s) THEN <<>>
    ELSE IF StartsAt(s, Fence, i)
         THEN RemoveFencesFrom(s, i + 3)
         ELSE <<s[i]>> \o RemoveFencesFrom(s, i + 1)

RemoveFences(s) == RemoveFencesFrom(s, 1)

Normalize(raw) == Trim(RemoveFences(RemoveOpeningFences(raw)))

NonBlank(row) == Len(Trim(row)) > 0

HasFieldDelimiter(row) == Includes(row, FieldDelimiter)

PrimaryRows(text) == SelectSeq(Split(text, RowDelimiter), NonBlank)

LineRows(text) == SelectSeq(Split(text, <<"\n">>), HasFieldDelimiter)

\* variant: falls back only when the primary split left no row at all
UseLineFallbackNoRows(text) ==
    /\ Len(PrimaryRows(text)) < 1
    /\ Includes(text, FieldDelimiter)
    /\ Includes(text, <<"\n">>)

UseLineFallback(text) ==
    /\ Len(PrimaryRows(text)) <= 1
    /\ Includes(text, FieldDelimiter)
    /\ Includes(text, <<"\n">>)

SplitRows(text) == IF UseLineFallback(text) THEN LineRows(text) ELSE PrimaryRows(text)

(***************************************************************************)
(* JSON.parse                                                              *)
(*                                                                         *)
(* A decoded value is a tagged record: JSON.parse returns whatever the     *)
(* text denotes, not only arrays.  Escapes other than the simple ones are  *)
(* rejected here; no text of the model holds a backslash.                  *)
(***************************************************************************)
JNull == [t |-> "null", v |-> <<>>]

JBool(chars) == [t |-> "bool", v |-> chars]

JNum(chars) == [t |-> "num", v |-> chars]

JStr(chars) == [t |-> "str", v |-> chars]

JArr(items) == [t |-> "arr", v |-> items]

JObj(members) == [t |-> "obj", v |-> members]

LitTrue == <<"t", "r", "u", "e">>

LitFalse == <<"f", "a", "l", "s", "e">>

LitNull == <<"n", "u", "l", "l">>

ParseFail == [ok |-> FALSE, val |-> JNull, next |-> 0]

ParseOk(val, next) == [ok |-> TRUE, val |-> val, next |-> next]

CharAt(s, i) == IF i >= 1 /\ i <= Len(s) THEN s[i] ELSE "EOF"

\* JSON whitespace
RECURSIVE SkipWs(_, _)
SkipWs(s, i) ==
    IF CharAt(s, i) \in {" ", "\n", "\t", "\r"} THEN SkipWs(s, i + 1) ELSE i

RECURSIVE SkipDigits(_, _)
SkipDigits(s, i) == IF CharAt(s, i) \in Digits THEN SkipDigits(s, i + 1) ELSE i

SimpleEscapes == {"\"", "\\", "/", "n", "t", "r"}

Unescape(c) == CASE c = "n" -> "\n" [] c = "t" -> "\t" [] c = "r" -> "\r" [] OTHER -> c

\* the characters of a string literal after its opening quote
RECURSIVE StringBody(_, _, _)
StringBody(s, i, acc) ==
    LET c == CharAt(s, i)
    IN  IF c = "EOF" \/ c \in {"\n", "\t", "\r"} THEN ParseFail
        ELSE IF c = "\"" THEN ParseOk(JStr(acc), i + 1)
        ELSE IF c = "\\"
             THEN IF CharAt(s, i + 1) \in SimpleEscapes
                  THEN StringBody(s, i + 2, Append(acc, Unescape(s[i + 1])))
                  ELSE ParseFail
        ELSE StringBody(s, i + 1, Append(acc, c))

\* -?(0|[1-9][0-9]*)(\.[0-9]+)?([eE][+-]?[0-9]+)?  starting at i; 0 when none
NumberEnd(s, i) ==
    LET j0 == IF CharAt(s, i) = "-" THEN i + 1 ELSE i
        j1 == IF CharAt(s, j0) = "0" THEN j0 + 1
              ELSE IF CharAt(s, j0) \in Digits THEN SkipDigits(s, j0 + 1) ELSE 0
        j2 == IF j1 = 0 THEN 0
              ELSE IF CharAt(s, j1) = "."
                   THEN IF CharAt(s, j1 + 1) \in Digits THEN SkipDigits(s, j1 + 2) ELSE 0
                   ELSE j1
        k  == IF CharAt(s, j2 + 1) \in {"+", "-"} THEN j2 + 2 ELSE j2 + 1
    IN  IF j2 = 0 THEN 0
        ELSE IF Lower(CharAt(s, j2)) = "e"
             THEN IF CharAt(s, k) \in Digits THEN SkipDigits(s, k + 1) ELSE 0
             ELSE j2

RECURSIVE ParseValue(_, _)
RECURSIVE ParseElements(_, _, _)
RECURSIVE ParseMembers(_, _, _)
\* one JSON value starting exactly at i
ParseValue(s, i) ==
    LET c == CharAt(s, i)
    IN  IF c = "[" THEN
            LET j == SkipWs(s, i + 1)
            IN  IF CharAt(s, j) = "]" THEN ParseOk(JArr(<<>>), j + 1)
                ELSE ParseElements(s, j, <<>>)
        ELSE IF c = "{" THEN
            LET j == SkipWs(s, i + 1)
            IN  IF CharAt(s, j) = "}" THEN ParseOk(JObj(<<>>), j + 1)
                ELSE ParseMembers(s, j, <<>>)
        ELSE IF c = "\"" THEN StringBody(s, i + 1, <<>>)
        ELSE IF StartsAt(s, LitTrue, i) THEN ParseOk(JBool(LitTrue), i + 4)
        ELSE IF StartsAt(s, LitFalse, i) THEN ParseOk(JBool(LitFalse), i + 5)
        ELSE IF StartsAt(s, LitNull, i) THEN ParseOk(JNull, i + 4)
        ELSE LET e == NumberEnd(s, i)
             IN  IF e = 0 THEN ParseFail ELSE ParseOk(JNum(SubSeq(s, i, e - 1)), e)

\* the elements of an array, the first starting at i
ParseElements(s, i, acc) ==
    LET r == ParseValue(s, i)
        k == SkipWs(s, r.next)
    IN  IF ~r.ok THEN ParseFail
        ELSE IF CharAt(s, k) = "," THEN ParseElements(s, SkipWs(s, k + 1), Append(acc, r.val))
        ELSE IF CharAt(s, k) = "]" THEN ParseOk(JArr(Append(acc, r.val)), k + 1)
        ELSE ParseFail

\* the members of an object, the first key starting at i
ParseMembers(s, i, acc) ==
    LET key == IF CharAt(s, i) = "\"" THEN StringBody(s, i + 1, <<>>) ELSE ParseFail
        c   == SkipWs(s, key.next)
        r   == ParseValue(s, SkipWs(s, c + 1))
        k   == SkipWs(s, r.next)
    IN  IF ~key.ok \/ CharAt(s, c) # ":" THEN ParseFail
        ELSE IF ~r.ok THEN ParseFail
        ELSE IF CharAt(s, k) = "," 
             THEN ParseMembers(s, SkipWs(s, k + 1), Append(acc, <<key.val, r.val>>))
        ELSE IF CharAt(s, k) = "}" THEN ParseOk(JObj(Append(acc, <<key.val, r.val>>)), k + 1)
        ELSE ParseFail

\* JSON.parse(text): ok is FALSE where it throws a SyntaxError
JSONParse(text) ==
    LET r == ParseValue(text, SkipWs(text, 1))
    IN  IF r.ok /\ SkipWs(text, r.next) > Len(text) THEN r ELSE ParseFail

\* the value of a number literal is zero (exponent underflow aside)
IsZeroNumber(chars) ==
    LET mant == {k \in 1..Len(chars) : \A m \in 1..k : Lower(chars[m]) # "e"}
    IN  \A k \in mant : chars[k] \notin (Digits \ {"0"})

\* ToBoolean of a decoded value
Truthy(val) ==
    CASE val.t \in {"null", "undefined"} -> FALSE
      [] val.t = "bool" -> val.v = LitTrue
      [] val.t = "num"  -> ~IsZeroNumber(val.v)
      [] val.t = "str"  -> val.v # <<>>
      [] OTHER -> TRUE

(***************************************************************************)
(* Option decoder                                                          *)
(***************************************************************************)
TrimAll(pieces) == [k \in 1..Len(pieces) |-> Trim(pieces[k])]

NonEmpty(o) == Len(o) > 0

\* variant: the pieces are not trimmed
FallbackOptionsUntrimmed(optionsStr) ==
    LET pieces == SelectSeq(Split(ReplaceChars(optionsStr, {"[", "]", "'"}, <<>>), <<",">>),
                            NonEmpty)
    IN  JArr([k \in 1..Len(pieces) |-> JStr(pieces[k])])

\* the catch branch: strip [ ] ', split on commas, trim, drop the empty pieces
FallbackOptions(optionsStr) ==
    LET pieces == SelectSeq(TrimAll(Split(ReplaceChars(optionsStr, {"[", "]", "'"}, <<>>),
                                          <<",">>)), NonEmpty)
    IN  JArr([k \in 1..Len(pieces) |-> JStr(pieces[k])])

\* try { JSON.parse(optionsStr.replace(/'/g, '"')) } catch { fallback }
DecodeOptions(optionsStr) ==
    LET r == JSONParse(ReplaceChars(optionsStr, {"'"}, <<"\"">>))
    IN  IF r.ok THEN r.val ELSE FallbackOptions(optionsStr)

(***************************************************************************)
(* Row parser: Strategy A (delimited fields) and Strategy B (labels)       *)
(***************************************************************************)
\* row.split("|->").map((p) => p.trim())
Parts(row) == TrimAll(Split(row, FieldDelimiter))

\* variant: attempt 1 taken only for a row of five or more parts
StrategyAAppliesFiveParts(row) == HasFieldDelimiter(row) /\ Len(Parts(row)) >= 5

\* the guard of attempt 1: the row holds the delimiter and splits in two or more
StrategyAApplies(row) == HasFieldDelimiter(row) /\ Len(Parts(row)) >= 2

\* variant: the answer is always the second part
FieldsASecondIsAnswer(row, dSkill, dType) ==
    LET parts == Parts(row)
        full  == Len(parts) >= 5
    IN  [description |-> parts[1],
         optionsStr  |-> IF full THEN parts[2] ELSE <<>>,
         answer      |-> parts[2],
         skill       |-> IF full THEN parts[4] ELSE dSkill,
         type        |-> IF full THEN parts[5] ELSE dType]

\* the five locals of attempt 1
FieldsA(row, dSkill, dType) ==
    LET parts == Parts(row)
        full  == Len(parts) >= 5
    IN  [description |-> parts[1],
         optionsStr  |-> IF full THEN parts[2] ELSE <<>>,
         answer      |-> IF full THEN parts[3] ELSE parts[2],
         skill       |-> IF full THEN parts[4] ELSE dSkill,
         type        |-> IF full THEN parts[5] ELSE dType]

OptionsA(f) == IF f.type = MultipleChoice THEN DecodeOptions(f.optionsStr) ELSE JNull

QuestionA(row, dSkill, dType, id) ==
    LET f == FieldsA(row, dSkill, dType)
    IN  [id          |-> id,
         description |-> f.description,
         options     |-> OptionsA(f),
         answer      |-> f.answer,
         skill       |-> f.skill,
         type        |-> f.type]

\* the alternatives of the description pattern, each with the colon that follows
DescLabels == {<<"d", "e", "s", "c", "r", "i", "p", "t", "i", "o", "n", ":">>,
               <<"1", ".", ":">>, <<"2", ".", ":">>, <<"3", ".", ":">>,
               <<"4", ".", ":">>, <<"5", ".", ":">>}

OptionsLabel == <<"o", "p", "t", "i", "o", "n", "s", ":">>

AnswerLabel == <<"a", "n", "s", "w", "e", "r", ":">>

SkillLabel == <<"s", "k", "i", "l", "l", ":">>

TypeLabel == <<"t", "y", "p", "e", ":">>

NoMatch == [found |-> FALSE, cap |-> <<>>]

RECURSIVE SkipSpaces(_, _)
SkipSpaces(s, i) == IF i <= Len(s) /\ IsSpace(s[i]) THEN SkipSpaces(s, i + 1) ELSE i

\* the lookahead (?=stop1|stop2|$) holds at position i
LookaheadAt(s, stops, i) == i > Len(s) \/ \E st \in stops : StartsAtI(s, st, i)

\* row.match(/(?:label):\s*([\s\S]*?)(?=stops|$)/i): the leftmost label, the
\* white space after it, then the shortest text up to a stop or the end
LabelMatch(row, labels, stops) ==
    LET starts == {i \in 1..Len(row) : \E l \in labels : StartsAtI(row, l, i)}
    IN  IF starts = {} THEN NoMatch
        ELSE LET p   == CHOOSE i \in starts : \A j \in starts : i <= j
                 l   == CHOOSE x \in labels : StartsAtI(row, x, p)
                 w   == SkipSpaces(row, p + Len(l))
                 e   == CHOOSE i \in w..(Len(row) + 1) :
                            /\ LookaheadAt(row, stops, i)
                            /\ \A j \in w..(i - 1) : ~LookaheadAt(row, stops, j)
             IN  [found |-> TRUE, cap |-> SubSeq(row, w, e - 1)]

descMatch(row) == LabelMatch(row, DescLabels, {OptionsLabel, AnswerLabel})

optMatch(row) == LabelMatch(row, {OptionsLabel}, {AnswerLabel})

ansMatch(row) == LabelMatch(row, {AnswerLabel}, {SkillLabel, TypeLabel})

\* variant: attempt 2 also wants a non-empty description and answer
StrategyBAppliesNonEmpty(row) ==
    /\ descMatch(row).found /\ ansMatch(row).found
    /\ Trim(descMatch(row).cap) # <<>> /\ Trim(ansMatch(row).cap) # <<>>

\* the guard of attempt 2
StrategyBApplies(row) == descMatch(row).found /\ ansMatch(row).found

\* the local options of attempt 2, before the || of the record
OptionsB(row, dType) ==
    IF dType = MultipleChoice /\ optMatch(row).found
    THEN DecodeOptions(Trim(optMatch(row).cap))
    ELSE JNull

QuestionB(row, dSkill, dType, id) ==
    LET options == OptionsB(row, dType)
    IN  [id          |-> id,
         description |-> Trim(descMatch(row).cap),
         options     |-> IF Truthy(options) THEN options
                         ELSE IF dType = MultipleChoice THEN JArr(<<>>) ELSE JNull,
         answer      |-> Trim(ansMatch(row).cap),
         skill       |-> dSkill,
         type        |-> dType]

(***************************************************************************)
(* State                                                                   *)
(***************************************************************************)
VARIABLES
    DIFY_HOST,      \* process.env value read at module load; "" when unset
    DIFY_API_KEY,   \* process.env value read at module load; "" when unset
    pc,             \* position in POST / parseDifyCSV
    body,           \* what req.json() produced
    range,          \* destructured request fields
    skill,
    type,
    upstream,       \* the Response fetch resolved to
    data,           \* what response.json() produced
    resultString,
    error,          \* the exception the catch clause holds
    responses,      \* payloads POST has returned
    calls,          \* the calls POST has made, in order
    raw,            \* parseDifyCSV's parameters and locals
    defaultSkill,
    defaultType,
    cleanRaw,
    rows,
    idx,            \* forEach position in rows
    questions,
    uuids           \* identifiers crypto.randomUUID has handed out

handlerVars == <<DIFY_HOST, DIFY_API_KEY, body, range, skill, type, upstream, data,
                 resultString, error, responses, calls>>

parserVars == <<raw, defaultSkill, defaultType, cleanRaw, rows, idx, questions, uuids>>

vars == <<pc, handlerVars, parserVars>>

Undefined == [t |-> "undefined", v |-> <<>>]

\* the catch clause holds nothing yet / an Error with this message
NoError == [t |-> "none", v |-> ""]

Thrown(message) == [t |-> "error", v |-> message]

(***************************************************************************)
(* parseDifyCSV, one step per statement group and one per row              *)
(***************************************************************************)
\* lines 63-70: normalise, split into rows, start with no questions
ParseBegin ==
    /\ pc = "parse"
    /\ raw.t = "str"
    /\ cleanRaw' = Normalize(raw.v)
    /\ rows' = SplitRows(Normalize(raw.v))
    /\ questions' = <<>>
    /\ idx' = 1
    /\ pc' = "rows"
    /\ UNCHANGED <<handlerVars, raw, defaultSkill, defaultType, uuids>>

\* lines 74-107: the row holds the field delimiter
RowStrategyA ==
    /\ pc = "rows"
    /\ idx <= Len(rows)
    /\ StrategyAApplies(rows[idx])
    /\ questions' = Append(questions, QuestionA(rows[idx], defaultSkill, defaultType, uuids + 1))
    /\ uuids' = uuids + 1
    /\ idx' = idx + 1
    /\ UNCHANGED <<pc, handlerVars, raw, defaultSkill, defaultType, cleanRaw, rows>>

\* lines 111-138: the labelled fallback matched
RowStrategyB ==
    /\ pc = "rows"
    /\ idx <= Len(rows)
    /\ ~StrategyAApplies(rows[idx])
    /\ StrategyBApplies(rows[idx])
    /\ questions' = Append(questions, QuestionB(rows[idx], defaultSkill, defaultType, uuids + 1))
    /\ uuids' = uuids + 1
    /\ idx' = idx + 1
    /\ UNCHANGED <<pc, handlerVars, raw, defaultSkill, defaultType, cleanRaw, rows>>

\* lines 115, 139: neither attempt matched, the callback returns without a push
RowDropped ==
    /\ pc = "rows"
    /\ idx <= Len(rows)
    /\ ~StrategyAApplies(rows[idx])
    /\ ~StrategyBApplies(rows[idx])
    /\ idx' = idx + 1
    /\ UNCHANGED <<pc, handlerVars, raw, defaultSkill, defaultType, cleanRaw, rows,
                   questions, uuids>>

\* line 141
ParseReturn ==
    /\ pc = "rows"
    /\ idx > Len(rows)
    /\ pc' = "parsed"
    /\ UNCHANGED <<handlerVars, parserVars>>

NextParse == ParseBegin \/ RowStrategyA \/ RowStrategyB \/ RowDropped \/ ParseReturn

(***************************************************************************)
(* Inputs of parseDifyCSV called on its own                                *)
(***************************************************************************)
RECURSIVE Concat(_)
Concat(chunks) == IF chunks = <<>> THEN <<>> ELSE Head(chunks) \o Concat(Tail(chunks))

RECURSIVE Join(_, _)
Join(pieces, sep) ==
    IF Len(pieces) = 0 THEN <<>>
    ELSE IF Len(pieces) = 1 THEN pieces[1]
    ELSE pieces[1] \o sep \o Join(Tail(pieces), sep)

SeqsUpTo(S, n) == UNION {[1..m -> S] : m \in 0..n}

DefaultSkills == {Reading}

DefaultTypes == {MultipleChoice, ShortAnswer}

IdleHandler ==
    /\ DIFY_HOST = "" /\ DIFY_API_KEY = ""
    /\ body = Undefined /\ range = Undefined /\ skill = Undefined /\ type = Undefined
    /\ upstream = Undefined /\ data = Undefined /\ resultString = Undefined
    /\ error = NoError /\ responses = <<>> /\ calls = <<>>

LabelledRow ==
    <<"D", "e", "s", "c", "r", "i", "p", "t", "i", "o", "n", ":", " ", "X", " ",
      "A", "n", "s", "w", "e", "r", ":", " ", "Y">>

\* one row for each of the three outcomes of a row; every family holds them
SeedTexts == {<<"Q">> \o FieldDelimiter \o <<"A">>, LabelledRow, <<"j", "u", "n", "k">>}

InitParseOn(corpus) ==
    /\ IdleHandler
    /\ pc = "parse"
    /\ raw \in {JStr(text) : text \in corpus \cup SeedTexts}
    /\ defaultSkill \in DefaultSkills
    /\ defaultType \in DefaultTypes
    /\ cleanRaw = <<>> /\ rows = <<>> /\ idx = 0 /\ questions = <<>> /\ uuids = 0

(***************************************************************************)
(* Input families, one specification each                                  *)
(***************************************************************************)
\* row splitting: texts over the two delimiters, line breaks, fences and filler
MaxSplitChunks == 4

SplitChunks == {RowDelimiter, FieldDelimiter, <<"\n">>, <<" ">>, <<"x">>, Fence}

SplitCorpus == {Concat(c) : c \in SeqsUpTo(SplitChunks, MaxSplitChunks)}

SpecSplit == InitParseOn(SplitCorpus) /\ [][NextParse]_vars

\* field mapping: one row of up to MaxParts parts joined by the field delimiter
MaxParts == 5

PartValues == {<<>>, <<" ", "Q", " ">>, MultipleChoice, <<"[", "A", ",", " ", "B", "]">>}

FieldCorpus == {Join(parts, FieldDelimiter) : parts \in SeqsUpTo(PartValues, MaxParts)}

SpecFields == InitParseOn(FieldCorpus) /\ [][NextParse]_vars

\* batches: up to MaxRows rows joined by the row delimiter; one row of each kind
MaxRows == 3

RowKinds ==
    {<<"Q">> \o FieldDelimiter \o <<"A">>,
     FieldDelimiter,
     <<"Q">> \o FieldDelimiter \o <<"O">> \o FieldDelimiter \o <<"A">> \o FieldDelimiter
        \o Math \o FieldDelimiter \o MultipleChoice,
     LabelledRow,
     <<"D", "e", "s", "c", "r", "i", "p", "t", "i", "o", "n", ":", " ", "X">>
        \o FieldDelimiter \o <<"A", "n", "s", "w", "e", "r", ":", " ", "Y">>,
     <<"j", "u", "n", "k">>}

BatchCorpus == {Join(rs, RowDelimiter) : rs \in SeqsUpTo(RowKinds, MaxRows)}

SpecBatch == InitParseOn(BatchCorpus) /\ [][NextParse]_vars

\* option texts: [ items joined by commas ], with or without the brackets
MaxOptions == 2

OptionItems ==
    {<<>>, <<"'", "A", "'">>, <<" ", "B">>, <<"\"", "C">>, <<"5">>, <<"n", "u", "l", "l">>}

OptionTexts ==
    {open \o Join(items, <<",">>) \o close :
        open \in {<<>>, <<"[">>}, close \in {<<>>, <<"]">>},
        items \in SeqsUpTo(OptionItems, MaxOptions)}

\* the option text as the second of five fields (Strategy A)
OptionRowA(o) ==
    <<"Q">> \o FieldDelimiter \o o \o FieldDelimiter \o <<"A">> \o FieldDelimiter
        \o Math \o FieldDelimiter \o MultipleChoice

\* the option text after an Options: label (Strategy B)
OptionRowB(o) ==
    <<"D", "e", "s", "c", "r", "i", "p", "t", "i", "o", "n", ":", " ", "Q", " ",
      "O", "p", "t", "i", "o", "n", "s", ":", " ">> \o o
        \o <<" ", "A", "n", "s", "w", "e", "r", ":", " ", "A">>

OptionCorpus == {OptionRowA(o) : o \in OptionTexts} \cup {OptionRowB(o) : o \in OptionTexts}

SpecOptions == InitParseOn(OptionCorpus) /\ [][NextParse]_vars

\* labelled rows: texts over the labels, an enumerator, a colon and filler
MaxLabelChunks == 4

LabelChunks ==
    {<<"D", "e", "s", "c", "r", "i", "p", "t", "i", "o", "n", ":">>,
     <<"1", ".">>,
     <<":">>,
     <<"O", "p", "t", "i", "o", "n", "s", ":">>,
     <<"A", "n", "s", "w", "e", "r", ":">>,
     <<"S", "k", "i", "l", "l", ":">>,
     <<" ", "X", " ">>}

\* rows in other letter case, with Skill: and Type: labels, and with enumerators
MoreLabelTexts ==
    {<<"1", ".", " ", "X", " ", "A", "n", "s", "w", "e", "r", ":", " ", "Y">>,
     <<"D", "e", "s", "c", "r", "i", "p", "t", "i", "o", "n", ":", " ", "X", " ",
       "A", "n", "s", "w", "e", "r", ":", " ", "Y", " ", "S", "k", "i", "l", "l", ":", " ", "Z",
       " ", "T", "y", "p", "e", ":", " ", "W">>,
     <<"d", "e", "s", "c", "r", "i", "p", "t", "i", "o", "n", ":", " ", "X", " ",
       "A", "N", "S", "W", "E", "R", ":", " ", "Y", " ", "T", "y", "p", "e", ":", " ", "Z">>,
     <<"D", "e", "s", "c", "r", "i", "p", "t", "i", "o", "n", ":", " ", "X", " ",
       "A", "n", "s", "w", "e", "r", ":", " ", "Y", " ", "S", "k", "i", "l", "l", ":", " ", "Z">>,
     <<"D", "e", "s", "c", "r", "i", "p", "t", "i", "o", "n", ":", " ", "X", " ",
       "o", "p", "t", "i", "o", "n", "s", ":", " ", "O", " ",
       "A", "n", "s", "w", "e", "r", ":", " ", "Y">>,
     <<"3", ".", " ", "X", " ", "A", "n", "s", "w", "e", "r", ":", " ", "Y">>,
     <<"3", ".", ":", " ", "X", " ", "A", "n", "s", "w", "e", "r", ":", " ", "Y">>}

LabelCorpus ==
    {Concat(c) : c \in SeqsUpTo(LabelChunks, MaxLabelChunks)} \cup MoreLabelTexts

SpecLabels == InitParseOn(LabelCorpus) /\ [][NextParse]_vars

(***************************************************************************)
(* POST                                                                    *)
(***************************************************************************)
Configured == DIFY_HOST # "" /\ DIFY_API_KEY # ""

\* the body could not be read as JSON / the fetch was rejected
Malformed == [t |-> "malformed", v |-> <<>>]

NetworkFailure == [t |-> "rejected", v |-> <<>>]

RangeText == <<"1", "-", "5">>

\* what req.json() can resolve to: each field absent, empty or set
RequestBodies ==
    [range : {Undefined, JStr(RangeText)},
     skill : {Undefined, JStr(Reading)},
     type  : {Undefined, JStr(<<>>), JStr(MultipleChoice), JStr(ShortAnswer)}]

\* the message of an exception thrown inside the try block
ErrorMessages == {"", "Unexpected token"}

\* what fetch can resolve to
UpstreamResponses ==
    {[t |-> "response", ok |-> TRUE, status |-> 200, text |-> ""]}
    \cup [t : {"response"}, ok : {FALSE}, status : {400, 429, 503},
          text : {"", "quota exceeded"}]

\* the six places the result text is looked for are numbered in the order of lines 47-52
FieldText(k) == <<"Q", "1", "2", "3", "4", "5", "6">>[k + 1]

\* a text that names the field it came from
SampleText(k) == <<"Q", FieldText(k)>> \o FieldDelimiter \o <<"A">>

FieldValues(k) == {Undefined, JStr(<<>>), JStr(SampleText(k))}

EmptyBody ==
    [result |-> Undefined, outputs_result |-> Undefined, outputs_text |-> Undefined,
     data_outputs_result |-> Undefined, data_outputs_text |-> Undefined,
     answer |-> Undefined]

\* the objects response.json() can resolve to, by the six places read
UpstreamObjects ==
    [result : FieldValues(1), outputs_result : FieldValues(2),
     outputs_text : FieldValues(3), data_outputs_result : FieldValues(4),
     data_outputs_text : FieldValues(5), answer : FieldValues(6)]
    \cup {[EmptyBody EXCEPT !.result = r] :
            r \in {JNum(<<"7">>), JNull, JStr(LabelledRow), JStr(<<"j", "u", "n", "k">>)}}
    \cup {[EmptyBody EXCEPT !.result = JNum(<<"0">>), !.answer = a] :
            a \in {JStr(SampleText(6)), JNum(<<"7">>)}}

\* what response.json() can resolve to: an object, or null
UpstreamBodies == {JObj(o) : o \in UpstreamObjects} \cup {JNull}

\* variant: only the host is looked at
CheckConfigHostOnly ==
    /\ pc = "start"
    /\ IF DIFY_HOST # ""
       THEN pc' = "read_body" /\ UNCHANGED responses
       ELSE /\ responses' = Append(responses,
                [status |-> 500, error |-> <<"Dify configuration is missing">>])
            /\ pc' = "done"
    /\ UNCHANGED <<DIFY_HOST, DIFY_API_KEY, body, range, skill, type, upstream, data,
                   resultString, error, calls, parserVars>>

\* line 8-10
CheckConfig ==
    /\ pc = "start"
    /\ IF Configured
       THEN pc' = "read_body" /\ UNCHANGED responses
       ELSE /\ responses' = Append(responses,
                [status |-> 500, error |-> <<"Dify configuration is missing">>])
            /\ pc' = "done"
    /\ UNCHANGED <<DIFY_HOST, DIFY_API_KEY, body, range, skill, type, upstream, data,
                   resultString, error, calls, parserVars>>

\* line 13: await req.json() and the destructuring
ReadBody ==
    /\ pc = "read_body"
    /\ calls' = Append(calls, "req.json")
    /\ \/ \E b \in RequestBodies :
            /\ body' = JObj(b)
            /\ range' = b.range /\ skill' = b.skill /\ type' = b.type
            /\ pc' = "validate"
            /\ UNCHANGED error
       \/ \E m \in ErrorMessages, b \in {Malformed, JNull} :
            /\ body' = b
            /\ error' = Thrown(m)
            /\ pc' = "catch"
            /\ UNCHANGED <<range, skill, type>>
    /\ UNCHANGED <<DIFY_HOST, DIFY_API_KEY, upstream, data, resultString, responses,
                   parserVars>>

\* ToBoolean of a request or response field
Present(val) == Truthy(val)

\* variant: the type is not looked at
ValidateWithoutType ==
    /\ pc = "validate"
    /\ IF ~Present(range) \/ ~Present(skill)
       THEN /\ responses' = Append(responses,
                [status |-> 400, error |-> <<"Missing required fields">>])
            /\ pc' = "done"
       ELSE pc' = "fetch" /\ UNCHANGED responses
    /\ UNCHANGED <<DIFY_HOST, DIFY_API_KEY, body, range, skill, type, upstream, data,
                   resultString, error, calls, parserVars>>

\* lines 15-17
Validate ==
    /\ pc = "validate"
    /\ IF ~Present(range) \/ ~Present(skill) \/ ~Present(type)
       THEN /\ responses' = Append(responses,
                [status |-> 400, error |-> <<"Missing required fields">>])
            /\ pc' = "done"
       ELSE pc' = "fetch" /\ UNCHANGED responses
    /\ UNCHANGED <<DIFY_HOST, DIFY_API_KEY, body, range, skill, type, upstream, data,
                   resultString, error, calls, parserVars>>

\* lines 19-35: the one call of the workflow
Fetch ==
    /\ pc = "fetch"
    /\ calls' = Append(calls, "fetch")
    /\ \/ \E r \in UpstreamResponses :
            upstream' = r /\ pc' = "check_ok" /\ UNCHANGED error
       \/ \E m \in ErrorMessages :
            upstream' = NetworkFailure /\ error' = Thrown(m) /\ pc' = "catch"
    /\ UNCHANGED <<DIFY_HOST, DIFY_API_KEY, body, range, skill, type, data,
                   resultString, responses, parserVars>>

\* lines 37-41
UpstreamError ==
    /\ pc = "check_ok"
    /\ ~upstream.ok
    /\ calls' = Append(calls, "response.text")
    /\ \/ /\ responses' = Append(responses,
                [status |-> upstream.status,
                 error |-> <<"Dify API error: ", upstream.text>>])
          /\ pc' = "done"
          /\ UNCHANGED error
       \/ \E m \in ErrorMessages :
            error' = Thrown(m) /\ pc' = "catch" /\ UNCHANGED responses
    /\ UNCHANGED <<DIFY_HOST, DIFY_API_KEY, body, range, skill, type, upstream, data,
                   resultString, parserVars>>

\* line 43
ReadJson ==
    /\ pc = "check_ok"
    /\ upstream.ok
    /\ calls' = Append(calls, "response.json")
    /\ \/ \E d \in UpstreamBodies :
            data' = d /\ pc' = "extract" /\ UNCHANGED error
       \/ \E m \in ErrorMessages :
            data' = Malformed /\ error' = Thrown(m) /\ pc' = "catch"
    /\ UNCHANGED <<DIFY_HOST, DIFY_API_KEY, body, range, skill, type, upstream,
                   resultString, responses, parserVars>>

\* variant: outputs.text is looked at before outputs.result
ExtractResultTextFirst(d) ==
    IF Present(d.result) THEN d.result
    ELSE IF Present(d.outputs_text) THEN d.outputs_text
    ELSE IF Present(d.outputs_result) THEN d.outputs_result
    ELSE IF Present(d.data_outputs_result) THEN d.data_outputs_result
    ELSE IF Present(d.data_outputs_text) THEN d.data_outputs_text
    ELSE IF Present(d.answer) THEN d.answer
    ELSE JStr(<<>>)

\* lines 46-52: the first field that is truthy, "" when none is
ExtractResult(d) ==
    IF Present(d.result) THEN d.result
    ELSE IF Present(d.outputs_result) THEN d.outputs_result
    ELSE IF Present(d.outputs_text) THEN d.outputs_text
    ELSE IF Present(d.data_outputs_result) THEN d.data_outputs_result
    ELSE IF Present(d.data_outputs_text) THEN d.data_outputs_text
    ELSE IF Present(d.answer) THEN d.answer
    ELSE JStr(<<>>)

Extract ==
    /\ pc = "extract"
    /\ data.t = "obj"
    /\ resultString' = ExtractResult(data.v)
    /\ pc' = "call_parse"
    /\ UNCHANGED <<DIFY_HOST, DIFY_API_KEY, body, range, skill, type, upstream, data,
                   error, responses, calls, parserVars>>

\* line 47 on null: data.result cannot be read
ExtractTypeError ==
    /\ pc = "extract"
    /\ data.t = "null"
    /\ error' = Thrown("Cannot read properties of null")
    /\ pc' = "catch"
    /\ UNCHANGED <<DIFY_HOST, DIFY_API_KEY, body, range, skill, type, upstream, data,
                   resultString, responses, calls, parserVars>>

\* line 54: the call
CallParse ==
    /\ pc = "call_parse"
    /\ calls' = Append(calls, "parseDifyCSV")
    /\ raw' = resultString
    /\ defaultSkill' = skill.v
    /\ defaultType' = type.v
    /\ cleanRaw' = <<>> /\ rows' = <<>> /\ idx' = 0 /\ questions' = <<>>
    /\ pc' = "parse"
    /\ UNCHANGED <<DIFY_HOST, DIFY_API_KEY, body, range, skill, type, upstream, data,
                   resultString, error, responses, uuids>>

\* line 63 on a value that is no text: raw.replace is not a function
ParseTypeError ==
    /\ pc = "parse"
    /\ raw.t # "str"
    /\ error' = Thrown("raw.replace is not a function")
    /\ pc' = "catch"
    /\ UNCHANGED <<DIFY_HOST, DIFY_API_KEY, body, range, skill, type, upstream, data,
                   resultString, responses, calls, parserVars>>

\* line 55
Respond ==
    /\ pc = "parsed"
    /\ responses' = Append(responses,
            [status |-> 200, questions |-> questions, raw |-> resultString])
    /\ pc' = "done"
    /\ UNCHANGED <<DIFY_HOST, DIFY_API_KEY, body, range, skill, type, upstream, data,
                   resultString, error, calls, parserVars>>

\* error.message || "Internal Server Error"
CatchMessage(m) == IF m = "" THEN "Internal Server Error" ELSE m

\* lines 56-59
Catch ==
    /\ pc = "catch"
    /\ responses' = Append(responses, [status |-> 500, error |-> <<CatchMessage(error.v)>>])
    /\ pc' = "done"
    /\ UNCHANGED <<DIFY_HOST, DIFY_API_KEY, body, range, skill, type, upstream, data,
                   resultString, error, calls, parserVars>>

Init ==
    /\ DIFY_HOST \in {"", "https://api.dify.ai/v1"}
    /\ DIFY_API_KEY \in {"", "app-key"}
    /\ pc = "start"
    /\ body = Undefined /\ range = Undefined /\ skill = Undefined /\ type = Undefined
    /\ upstream = Undefined /\ data = Undefined /\ resultString = Undefined
    /\ error = NoError /\ responses = <<>> /\ calls = <<>>
    /\ raw = Undefined /\ defaultSkill = <<>> /\ defaultType = <<>>
    /\ cleanRaw = <<>> /\ rows = <<>> /\ idx = 0 /\ questions = <<>> /\ uuids = 0

Next ==
    \/ CheckConfig \/ ReadBody \/ Validate \/ Fetch \/ UpstreamError \/ ReadJson
    \/ Extract \/ ExtractTypeError \/ CallParse \/ ParseTypeError \/ Respond \/ Catch
    \/ ParseBegin \/ RowStrategyA \/ RowStrategyB \/ RowDropped \/ ParseReturn

Spec == Init /\ [][Next]_vars

(***************************************************************************)
(* Properties                                                              *)
(***************************************************************************)
Last(seq) == seq[Len(seq)]

\* a row is being processed in this step
AtRow == pc = "rows" /\ idx <= Len(rows)

\* this step appended exactly one question and kept the earlier ones
Appended == Len(questions') = Len(questions) + 1 /\ SubSeq(questions', 1, Len(questions)) = questions

ContainsI(row, label) == \E i \in 1..Len(row) : StartsAtI(row, label, i)

HasDescLabel(row) == \E l \in DescLabels : ContainsI(row, l)

HasAnswerLabel(row) == ContainsI(row, AnswerLabel)

\* pieces is the splitting of text at every occurrence of sep
IsSplitOf(pieces, text, sep) ==
    /\ Join(pieces, sep) = text
    /\ \A k \in 1..Len(pieces) : ~Includes(pieces[k], sep)

IsTrimmed(s) == s = <<>> \/ (~IsSpace(s[1]) /\ ~IsSpace(s[Len(s)]))

\* C1: every record has options that are a sequence of texts when its type is
\* "Multiple Choice" and null when its type is anything else.
C1_OptionsMatchType ==
    \A k \in 1..Len(questions) :
        IF questions[k].type = MultipleChoice
        THEN /\ questions[k].options.t = "arr"
             /\ \A j \in 1..Len(questions[k].options.v) : questions[k].options.v[j].t = "str"
        ELSE questions[k].options = JNull

\* C2 as stated: a record built from a row without the field delimiter has a
\* non-empty description and a non-empty answer.
C2_NonEmptyFields ==
    [][(AtRow /\ ~Includes(rows[idx], FieldDelimiter) /\ Len(questions') > Len(questions))
        => (Last(questions').description # <<>> /\ Last(questions').answer # <<>>)]_vars

\* C2 amended: a row without the field delimiter yields a record exactly when it
\* holds a description label and an answer label (in any letter case); the
\* description and the answer of the record are trimmed, and may be empty.
C2_AcceptsOnLabels ==
    [][(AtRow /\ ~Includes(rows[idx], FieldDelimiter))
        => /\ Appended <=> (HasDescLabel(rows[idx]) /\ HasAnswerLabel(rows[idx]))
           /\ ~Appended => questions' = questions
           /\ Appended => /\ IsTrimmed(Last(questions').description)
                          /\ IsTrimmed(Last(questions').answer)]_vars

C2_EmptyFieldsAccepted ==
    /\ pc = "parsed"
    /\ Len(rows) = 1
    /\ ~Includes(rows[1], FieldDelimiter)
    /\ Len(questions) = 1
    /\ questions[1].description = <<>>
    /\ questions[1].answer = <<>>

\* C3: a row that holds the field delimiter yields a record whose fields are the
\* trimmed parts: five or more parts give description, options text, answer,
\* skill, type; two to four give description, answer, no options text and the
\* default skill and type.
C3_FieldMapping ==
    [][(AtRow /\ Includes(rows[idx], FieldDelimiter))
        => LET pieces == Split(rows[idx], FieldDelimiter)
               parts  == [k \in 1..Len(pieces) |-> Trim(pieces[k])]
               q      == Last(questions')
           IN  /\ IsSplitOf(pieces, rows[idx], FieldDelimiter)
               /\ Len(parts) >= 2
               /\ Appended
               /\ q.description = parts[1]
               /\ IF Len(parts) >= 5
                  THEN /\ q.answer = parts[3]
                       /\ q.skill = parts[4]
                       /\ q.type = parts[5]
                       /\ q.type = MultipleChoice => q.options = DecodeOptions(parts[2])
                  ELSE /\ q.answer = parts[2]
                       /\ q.skill = defaultSkill
                       /\ q.type = defaultType
                       /\ q.type = MultipleChoice => q.options = JArr(<<>>)]_vars

C3_FiveFieldRecord ==
    /\ pc = "parsed"
    /\ Len(rows) = 1
    /\ Len(Split(rows[1], FieldDelimiter)) = 5
    /\ Len(questions) = 1
    /\ questions[1].description = <<"Q">>
    /\ questions[1].type = MultipleChoice
    /\ questions[1].options = JArr(<<JStr(<<"A">>), JStr(<<"B">>)>>)

\* no delimiter and not both labels: neither strategy can match the row
Unmatched(row) ==
    ~Includes(row, FieldDelimiter) /\ ~(HasDescLabel(row) /\ HasAnswerLabel(row))

\* C4: each row adds at most one record, after the records of the rows before
\* it: exactly one when the row holds the field delimiter (the record of
\* Strategy A) or both labels, none otherwise; processing goes on to the next
\* row, and the output holds one record per matched row.
C4_OneRecordPerRow ==
    [][/\ AtRow
            => /\ pc' = "rows" /\ idx' = idx + 1 /\ rows' = rows
               /\ IF Unmatched(rows[idx]) THEN questions' = questions ELSE Appended
               /\ Includes(rows[idx], FieldDelimiter)
                    => Last(questions').description = Trim(Split(rows[idx], FieldDelimiter)[1])
       /\ (pc = "rows" /\ idx > Len(rows))
            => /\ pc' = "parsed"
               /\ questions' = questions
               /\ Len(questions)
                    = Len(rows) - Cardinality({k \in 1..Len(rows) : Unmatched(rows[k])})]_vars

C4_MiddleRowDropped ==
    /\ pc = "parsed"
    /\ Len(rows) = 3
    /\ Unmatched(rows[2])
    /\ Len(questions) = 2
    /\ questions[1].description = <<"Q">>
    /\ questions[2].description = <<"X">>

\* C5: the rows are the non-blank pieces of the normalized text between row
\* delimiters, unless there is at most one such piece and the text holds both a
\* field delimiter and a line break: then they are the lines that hold a field
\* delimiter.  Two lines with a field delimiter each and no row delimiter make
\* two rows.
C5_RowSplitting ==
    pc \in {"rows", "parsed"} =>
        LET pieces   == Split(cleanRaw, RowDelimiter)
            primary  == SelectSeq(pieces, NonBlank)
            lines    == Split(cleanRaw, <<"\n">>)
            fallback == /\ Len(primary) <= 1
                        /\ Includes(cleanRaw, FieldDelimiter)
                        /\ Includes(cleanRaw, <<"\n">>)
        IN  /\ IsSplitOf(pieces, cleanRaw, RowDelimiter)
            /\ IsSplitOf(lines, cleanRaw, <<"\n">>)
            /\ rows = IF fallback THEN SelectSeq(lines, HasFieldDelimiter) ELSE primary
            /\ (/\ ~Includes(cleanRaw, RowDelimiter)
                /\ Len(lines) = 2
                /\ Includes(lines[1], FieldDelimiter)
                /\ Includes(lines[2], FieldDelimiter)) => rows = lines

C5_TwoLinesTwoRows ==
    /\ pc = "rows"
    /\ ~Includes(cleanRaw, RowDelimiter)
    /\ Len(Split(cleanRaw, <<"\n">>)) = 2
    /\ Len(rows) = 2

\* the rows C6 describes: label, X, "Answer:", Y and an optional tail, with the
\* description and the answer expected of each
DescriptionWord == <<"D", "e", "s", "c", "r", "i", "p", "t", "i", "o", "n", ":">>

AnswerWord == <<"A", "n", "s", "w", "e", "r", ":">>

C6_Forms ==
    {[row |-> l \o <<" ", "X", " ">> \o AnswerWord \o <<" ", "Y">> \o tail,
      x |-> <<"X">>, y |-> <<"Y">>] :
        l \in {DescriptionWord, <<"1", ".">>, <<"3", ".">>},
        tail \in {<<>>, <<" ", "S", "k", "i", "l", "l", ":", " ", "Z",
                         " ", "T", "y", "p", "e", ":", " ", "W">>}}
    \cup {[row |-> l \o <<" ", "X", " ">> \o AnswerWord \o <<" ", "X">>,
           x |-> <<"X">>, y |-> <<"X">>] : l \in {DescriptionWord, <<"1", ".">>}}

\* C6: a row "Description: X Answer: Y" without field delimiter, or the same
\* with an enumerator "1.".."5." in place of "Description:", yields exactly one
\* record with description X, answer Y and the default skill and type.
C6_LabelledExtraction ==
    pc = "parsed" =>
        \A f \in C6_Forms :
            cleanRaw = f.row =>
                /\ Len(questions) = 1
                /\ questions[1].description = f.x
                /\ questions[1].answer = f.y
                /\ questions[1].skill = defaultSkill
                /\ questions[1].type = defaultType

\* the options text a row carries: the second of five or more fields, or what
\* follows the Options: label
OptionsText(row) ==
    IF Includes(row, FieldDelimiter)
    THEN IF Len(Split(row, FieldDelimiter)) >= 5
         THEN Trim(Split(row, FieldDelimiter)[2]) ELSE <<>>
    ELSE IF optMatch(row).found THEN Trim(optMatch(row).cap) ELSE <<>>

PrimaryFails(text) == ~JSONParse(ReplaceChars(text, {"'"}, <<"\"">>)).ok

\* text without the characters of strip, split on commas, each piece trimmed,
\* the empty pieces dropped
StrippedPieces(text, strip) ==
    LET kept   == SelectSeq(text, LAMBDA c : c \notin strip)
        pieces == Split(kept, <<",">>)
    IN  SelectSeq([k \in 1..Len(pieces) |-> Trim(pieces[k])], LAMBDA o : o # <<>>)

Texts(pieces) == JArr([k \in 1..Len(pieces) |-> JStr(pieces[k])])

\* a step that adds a multiple-choice record whose options text fails to decode
\* as a structured list
FallbackStep ==
    /\ AtRow
    /\ Len(questions') > Len(questions)
    /\ Last(questions').type = MultipleChoice
    /\ PrimaryFails(OptionsText(rows[idx]))

\* C7 as stated: the fallback removes every bracket and every quote character.
C7_StripsAllQuotes ==
    [][FallbackStep
        => Last(questions').options
            = Texts(StrippedPieces(OptionsText(rows[idx]), {"[", "]", "'", "\""}))]_vars

\* C7 amended: the fallback removes the square brackets and the single quotes
\* (a double quote stays), splits on commas, trims and drops the empty pieces,
\* so each option is non-empty, trimmed and free of [ ] and '; an empty options
\* text gives the empty sequence; the step goes on to the next row.
C7_StripsSingleQuotes ==
    [][FallbackStep
        => LET text == OptionsText(rows[idx])
               opts == Last(questions').options
           IN  /\ opts = Texts(StrippedPieces(text, {"[", "]", "'"}))
               /\ \A k \in 1..Len(opts.v) :
                    /\ opts.v[k].t = "str"
                    /\ opts.v[k].v # <<>>
                    /\ IsTrimmed(opts.v[k].v)
                    /\ \A j \in 1..Len(opts.v[k].v) : opts.v[k].v[j] \notin {"[", "]", "'"}
               /\ text = <<>> => opts = JArr(<<>>)
               /\ pc' = "rows"]_vars

C7_DoubleQuoteKept ==
    /\ pc = "parsed"
    /\ Len(questions) = 1
    /\ questions[1].type = MultipleChoice
    /\ questions[1].options = JArr(<<JStr(<<"\"", "C">>), JStr(<<"B">>)>>)

\* what the catch clause answers for the exception it holds
CaughtPayload == [status |-> 500,
                  error |-> <<IF error.v = "" THEN "Internal Server Error" ELSE error.v>>]

FieldMissing(val) == val.t = "undefined" \/ val.v = <<>>

\* C8: POST returns exactly one payload, at its end: 500 and a fixed message
\* without configuration; 400 when range, skill or type is missing; the
\* upstream status and text when the upstream response is not OK; 500 and the
\* message of the exception for anything thrown on the way; else questions and raw.
C8_OnePayload ==
    /\ Len(responses) = (IF pc = "done" THEN 1 ELSE 0)
    /\ pc = "done" =>
        /\ ~Configured
            => responses[1] = [status |-> 500, error |-> <<"Dify configuration is missing">>]
        /\ (Configured /\ error.t = "error") => responses[1] = CaughtPayload
        /\ (\/ body.t \in {"malformed", "null"}
            \/ upstream.t = "rejected"
            \/ data.t \in {"malformed", "null"}
            \/ (resultString.t \notin {"undefined", "str"})) => error.t = "error"
        /\ (Configured /\ error.t = "none") =>
            IF FieldMissing(body.v.range) \/ FieldMissing(body.v.skill) \/ FieldMissing(body.v.type)
            THEN responses[1] = [status |-> 400, error |-> <<"Missing required fields">>]
            ELSE IF ~upstream.ok
            THEN responses[1] = [status |-> upstream.status,
                                 error |-> <<"Dify API error: ", upstream.text>>]
            ELSE responses[1] = [status |-> 200, questions |-> questions,
                                 raw |-> resultString]

C8_UpstreamStatusPassedOn ==
    /\ pc = "done"
    /\ error.t = "none"
    /\ upstream.t = "response"
    /\ ~upstream.ok
    /\ responses[1].status = 429
    /\ responses[1].error = <<"Dify API error: ", "quota exceeded">>

IsPrefix(a, b) == Len(a) <= Len(b) /\ SubSeq(b, 1, Len(a)) = a

\* C9: the request body is read only with the configuration present; the
\* workflow is called only after the body was read and held range, skill and
\* type, and once at most; parseDifyCSV is called only after the workflow
\* answered OK and its body was read.
C9_StepOrder ==
    /\ ~Configured => calls = <<>>
    /\ \/ IsPrefix(calls, <<"req.json", "fetch", "response.json", "parseDifyCSV">>)
       \/ calls = <<"req.json", "fetch", "response.text">>
    /\ Len(calls) >= 2 =>
        /\ body.t = "obj"
        /\ ~FieldMissing(body.v.range) /\ ~FieldMissing(body.v.skill) /\ ~FieldMissing(body.v.type)
    /\ Len(calls) >= 3 => upstream.t = "response" /\ (upstream.ok <=> calls[3] = "response.json")
    /\ Len(calls) >= 4 => data.t = "obj"
    /\ pc \in {"parse", "rows", "parsed"} => Len(calls) = 4

C9_AllStepsTaken ==
    /\ pc = "done"
    /\ calls = <<"req.json", "fetch", "response.json", "parseDifyCSV">>
    /\ responses[1].status = 200
    /\ Len(questions) = 1

ResultField(d, k) ==
    CASE k = 1 -> d.result
      [] k = 2 -> d.outputs_result
      [] k = 3 -> d.outputs_text
      [] k = 4 -> d.data_outputs_result
      [] k = 5 -> d.data_outputs_text
      [] k = 6 -> d.answer

Extracted == resultString.t # "undefined"

\* C10 as stated: the payload is the first field that is present.
C10_FirstPresentField ==
    Extracted =>
        /\ \A k \in 1..6 :
            (/\ ResultField(data.v, k).t # "undefined"
             /\ \A j \in 1..(k - 1) : ResultField(data.v, j).t = "undefined")
                => resultString = ResultField(data.v, k)
        /\ (\A k \in 1..6 : ResultField(data.v, k).t = "undefined") => resultString = JStr(<<>>)

\* C10 amended: the payload is the first field, in the order result,
\* outputs.result, outputs.text, data.outputs.result, data.outputs.text, answer,
\* whose value is truthy (a non-empty text); an absent or falsy field is passed
\* over; it is the empty text when no field is truthy.  It is what parseDifyCSV
\* is handed and what a success payload echoes as raw.
C10_FirstTruthyField ==
    /\ Extracted =>
        /\ \A k \in 1..6 :
            (/\ Truthy(ResultField(data.v, k))
             /\ \A j \in 1..(k - 1) : ~Truthy(ResultField(data.v, j)))
                => resultString = ResultField(data.v, k)
        /\ (\A k \in 1..6 : ~Truthy(ResultField(data.v, k))) => resultString = JStr(<<>>)
    /\ pc \in {"parse", "rows", "parsed"} => raw = resultString
    /\ (pc = "done" /\ responses[1].status = 200) => responses[1].raw = resultString

C10_EmptyFieldPassedOver ==
    /\ pc = "done"
    /\ responses[1].status = 200
    /\ data.v.result = JStr(<<>>)
    /\ data.v.outputs_result = Undefined
    /\ responses[1].raw = data.v.outputs_text
    /\ responses[1].raw # JStr(<<>>)

====
